---- MODULE Spec2Model ----
(***************************************************************************)
(* Storage reservation of the torchrec planner                             *)
(* (torchrec/distributed/planner/storage_reservations.py).                 *)
(*                                                                         *)
(* Python floats are modelled as exact rationals [num, den].  Every float  *)
(* the model draws (percentages, pooling factors) is a dyadic rational     *)
(* with a small numerator, and every product stays far below 2^53, so the  *)
(* exact arithmetic below is the arithmetic the interpreter performs.      *)
(*                                                                         *)
(* Objects live in a heap: a topology holds references (indices into       *)
(* heap) to its devices, and a device's storage is the record stored at    *)
(* that index.  Every function of the source that writes device.storage    *)
(* writes through these references.                                        *)
(***************************************************************************)
EXTENDS Integers, Sequences, FiniteSets, TLC

VARIABLES
    heap,    \* device objects: heap[d] is the Storage of device d
    topos,   \* topology objects, in order of creation; topos[1] is the caller's
    insts,   \* strategy instances, in order of construction
    last     \* the most recent operation, its arguments and its result

vars == <<heap, topos, insts, last>>

----------------------------------------------------------------------------
(* Bounds *)

MaxCalls == 2

----------------------------------------------------------------------------
(* Values *)

\* Records are built only by the constructors of this section.

\* a float, as an exact fraction
Rat(n, d) == [num |-> n, den |-> d]

Storage(h, d) == [hbm |-> h, ddr |-> d]

NoneVal == [none |-> TRUE]

Some(x) == [none |-> FALSE, val |-> x]

Tensor(es, ne, rg) == [element_size |-> es, nelement |-> ne, requires_grad |-> rg]

\* A node of a module hierarchy: its type, the index of its parent (0 for
\* the root), the tensors it registers itself, and the parameter names a
\* sharder of its type claims.
Node(ty, pa, ts, ps) == [type |-> ty, parent |-> pa, tensors |-> ts, params |-> ps]

ModuleType(m, n) == [mod |-> m, name |-> n]

Sharder(ty) == [module_type |-> ty]

ParameterConstraints(pf) == [pooling_factors |-> pf]

\* results of the helpers: the heap after the call and what the call returns
Copied(h, t) == [heap |-> h, topo |-> t]

Reserved(h, st) == [heap |-> h, storage |-> st]

Outcome(h, rt, sf) == [heap |-> h, reserved_topology |-> rt, self |-> sf]

Walked(sm, ls) == [shardable_modules |-> sm, all_input_lengths |-> ls]

Topology(ds, cd, bs) == [devices |-> ds, compute_device |-> cd, batch_size |-> bs]

FixedInit(p) == [kind |-> "Fixed", percentage |-> p]

HeuristicalInit(p) ==
    [kind |-> "Heuristical", percentage |-> p,
     dense_storage |-> NoneVal, kjt_storage |-> NoneVal]

Args(m, sh, c) == [module |-> m, sharders |-> sh, constraints |-> c]

\* an operation, its arguments and its outcome
Event(o, r, p, i, t, rt, a) ==
    [percentage |-> p, op |-> o, result |-> r, inst |-> i, topology |-> t,
     reserved |-> rt, args |-> a]

\* Storage.__sub__ as used by "device.storage -= ..."
StorageSub(a, b) == Storage(a.hbm - b.hbm, a.ddr - b.ddr)

\* int(n/d): truncation toward zero
IntTrunc(n, d) == IF n >= 0 THEN n \div d ELSE -((-n) \div d)

\* math.ceil(n/d), d > 0
MathCeil(n, d) == -((-n) \div d)

BIGINT_DTYPE == 8

POOLING_FACTOR == Rat(1, 1)

RatAdd(a, b) == Rat(a.num * b.den + b.num * a.den, a.den * b.den)

RECURSIVE RatSum(_)
\* sum(xs) over a list of floats
RatSum(xs) ==
    IF xs = <<>> THEN Rat(0, 1)
    ELSE RatAdd(RatSum(SubSeq(xs, 1, Len(xs) - 1)), xs[Len(xs)])

----------------------------------------------------------------------------
(* Module hierarchy, sharders, constraints: the collaborators' contracts *)

\* A module is the pre-order list of its nodes; node 1 is the root.
IsAncestorOrSelf(module, a, n) ==
    LET RECURSIVE Up(_)
        Up(k) == IF k = 0 THEN FALSE
                 ELSE IF k = a THEN TRUE
                 ELSE Up(module[k].parent)
    IN  Up(n)

\* module.modules(): every node, the root included, in pre-order
Modules(module) == [i \in 1..Len(module) |-> i]

RECURSIVE StateDictFrom(_, _, _)
StateDictFrom(module, n, i) ==
    IF i > Len(module) THEN <<>>
    ELSE (IF IsAncestorOrSelf(module, n, i) THEN module[i].tensors ELSE <<>>)
         \o StateDictFrom(module, n, i + 1)

\* node.state_dict().items(): the tensors of the node and of all its descendants
StateDict(module, n) == StateDictFrom(module, n, 1)

\* sharder_name(type): the qualified name of the type
sharder_name(t) == <<t.mod, t.name>>

\* sharder.shardable_parameters(child_module).keys()
ShardableParameters(sharder, module, n) == module[n].params

----------------------------------------------------------------------------
(* _get_tensor_size *)

TensorWeight(tensor) ==
    IF tensor.requires_grad
    THEN 6 * tensor.element_size * tensor.nelement
    ELSE tensor.element_size * tensor.nelement

RECURSIVE TensorSizeLoop(_, _)
TensorSizeLoop(items, i) ==
    IF i > Len(items) THEN 0
    ELSE TensorWeight(items[i]) + TensorSizeLoop(items, i + 1)

GetTensorSize(module, n) == TensorSizeLoop(StateDict(module, n), 1)

----------------------------------------------------------------------------
(* copy.deepcopy(topology) *)

RECURSIVE CopyDevices(_, _, _)
CopyDevices(h, devices, i) ==
    IF i > Len(devices) THEN h
    ELSE CopyDevices(Append(h, h[devices[i]]), devices, i + 1)

\* mutant of DeepCopy: copy.copy, the new topology shares the device objects
ShallowCopy(h, topology) == Copied(h, topology)

\* A new topology object whose devices are new objects with equal storage.
DeepCopy(h, topology) ==
    Copied(CopyDevices(h, topology.devices, 1),
           [topology EXCEPT
              !.devices = [i \in 1..Len(topology.devices) |-> Len(h) + i]])

----------------------------------------------------------------------------
(* _reserve_storage_percentage *)

\* mutant of PercentCut: keeps the reserved share instead of the remainder
PercentCutOfPercent(percent, x) == IntTrunc(percent.num * x, percent.den)

PercentCut(percent, x) == IntTrunc((percent.den - percent.num) * x, percent.den)

RECURSIVE PercentageLoop(_, _, _, _)
PercentageLoop(h, devices, percent, i) ==
    IF i > Len(devices) THEN h
    ELSE LET d  == devices[i]
             h1 == [h  EXCEPT ![d].hbm = PercentCut(percent, h[d].hbm)]
             h2 == [h1 EXCEPT ![d].ddr = PercentCut(percent, h1[d].ddr)]
         IN  PercentageLoop(h2, devices, percent, i + 1)

ReserveStoragePercentage(h, topology, percent) ==
    PercentageLoop(h, topology.devices, percent, 1)

----------------------------------------------------------------------------
(* _reserve_dense_storage, _reserve_kjt_storage *)

RECURSIVE SubtractLoop(_, _, _, _)
\* for device in topology.devices: device.storage -= storage
SubtractLoop(h, devices, storage, i) ==
    IF i > Len(devices) THEN h
    ELSE SubtractLoop([h EXCEPT ![devices[i]] = StorageSub(h[devices[i]], storage)],
                      devices, storage, i + 1)

RECURSIVE ShardableSizeSum(_, _, _)
ShardableSizeSum(module, shardable_modules, i) ==
    IF i > Len(shardable_modules) THEN 0
    ELSE GetTensorSize(module, shardable_modules[i])
         + ShardableSizeSum(module, shardable_modules, i + 1)

UnshardableTensorsSize(module, shardable_modules) ==
    GetTensorSize(module, 1) - ShardableSizeSum(module, shardable_modules, 1)

\* mutant of UnshardableTensorsStorage: the amount in both fields
UnshardableTensorsStorageBothFields(topology, module, shardable_modules) ==
    LET unshardable_tensors_size == UnshardableTensorsSize(module, shardable_modules)
    IN  Storage(unshardable_tensors_size, unshardable_tensors_size)

UnshardableTensorsStorage(topology, module, shardable_modules) ==
    LET unshardable_tensors_size == UnshardableTensorsSize(module, shardable_modules)
    IN  Storage(IF topology.compute_device = "cuda" THEN unshardable_tensors_size ELSE 0,
                IF topology.compute_device = "cpu" THEN unshardable_tensors_size ELSE 0)

ReserveDenseStorage(h, topology, module, shardable_modules) ==
    LET unshardable_tensors_storage ==
            UnshardableTensorsStorage(topology, module, shardable_modules)
    IN  Reserved(SubtractLoop(h, topology.devices, unshardable_tensors_storage, 1),
                 unshardable_tensors_storage)

\* mutant of KjtSize: the factor 20 inside the ceiling
KjtSizeScaledInsideCeil(batch_size, all_input_lengths, input_data_type_size) ==
    LET total == RatSum(all_input_lengths)
    IN  MathCeil(batch_size * total.num * input_data_type_size * 20, total.den)

\* mutant of KjtSize: an empty list of input lengths counts as one default
KjtSizeDefaultWhenEmpty(batch_size, all_input_lengths, input_data_type_size) ==
    LET total == IF all_input_lengths = <<>> THEN POOLING_FACTOR
                 ELSE RatSum(all_input_lengths)
    IN  MathCeil(batch_size * total.num * input_data_type_size, total.den) * 20

KjtSize(batch_size, all_input_lengths, input_data_type_size) ==
    LET total == RatSum(all_input_lengths)
    IN  MathCeil(batch_size * total.num * input_data_type_size, total.den) * 20

KjtStorage(topology, all_input_lengths, input_data_type_size) ==
    LET kjt_size == KjtSize(topology.batch_size, all_input_lengths, input_data_type_size)
    IN  Storage(IF topology.compute_device = "cuda" THEN kjt_size ELSE 0,
                IF topology.compute_device = "cpu" THEN kjt_size ELSE 0)

ReserveKjtStorage(h, topology, all_input_lengths, input_data_type_size) ==
    LET kjt_storage == KjtStorage(topology, all_input_lengths, input_data_type_size)
    IN  Reserved(SubtractLoop(h, topology.devices, kjt_storage, 1), kjt_storage)

----------------------------------------------------------------------------
(* HeuristicalStorageReservation.reserve: the walk over module.modules() *)

\* sharder_map.get(key): the last sharder of the list registered under key
SharderMapGet(sharders, key) ==
    LET hits == {i \in 1..Len(sharders) : sharder_name(sharders[i].module_type) = key}
    IN  IF hits = {} THEN NoneVal
        ELSE Some(sharders[CHOOSE i \in hits : \A j \in hits : j <= i])

\* sum(constraints[name].pooling_factors)
\*     if constraints and constraints.get(name) else POOLING_FACTOR
InputLength(constraints, name) ==
    IF /\ ~constraints.none
       /\ DOMAIN constraints.val # {}
       /\ name \in DOMAIN constraints.val
    THEN RatSum(constraints.val[name].pooling_factors)
    ELSE POOLING_FACTOR

InputLengths(constraints, names) ==
    [k \in 1..Len(names) |-> InputLength(constraints, names[k])]

RECURSIVE WalkModules(_, _, _, _, _)
WalkModules(module, sharders, constraints, i, acc) ==
    IF i > Len(module) THEN acc
    ELSE LET child_module == Modules(module)[i]
             sharder_key  == sharder_name(module[child_module].type)
             sharder      == SharderMapGet(sharders, sharder_key)
         IN  IF sharder.none
             THEN WalkModules(module, sharders, constraints, i + 1, acc)
             ELSE LET names == ShardableParameters(sharder.val, module, child_module)
                  IN  WalkModules(module, sharders, constraints, i + 1,
                        Walked(Append(acc.shardable_modules, child_module),
                               acc.all_input_lengths
                                 \o InputLengths(constraints, names)))

Walk(module, sharders, constraints) ==
    WalkModules(module, sharders, constraints, 1, Walked(<<>>, <<>>))

----------------------------------------------------------------------------
(* The two reserve methods: the heap and the objects after the call *)

FixedReserve(h, self, topology) ==
    LET c  == DeepCopy(h, topology)
        h1 == ReserveStoragePercentage(c.heap, c.topo, self.percentage)
    IN  Outcome(h1, c.topo, self)

\* mutant of HeuristicalReserve: the percentage cut after the two subtractions
HeuristicalReserveCutLast(h, self, topology, module, sharders, constraints) ==
    LET c  == DeepCopy(h, topology)
        w  == Walk(module, sharders, constraints)
        d  == ReserveDenseStorage(c.heap, c.topo, module, w.shardable_modules)
        k  == ReserveKjtStorage(d.heap, c.topo, w.all_input_lengths, BIGINT_DTYPE)
        h1 == ReserveStoragePercentage(k.heap, c.topo, self.percentage)
    IN  Outcome(h1, c.topo,
                [self EXCEPT !.dense_storage = Some(d.storage),
                             !.kjt_storage   = Some(k.storage)])

\* mutant of HeuristicalReserve: the retained amounts add up over the calls
HeuristicalReserveAccumulates(h, self, topology, module, sharders, constraints) ==
    LET c  == DeepCopy(h, topology)
        w  == Walk(module, sharders, constraints)
        h1 == ReserveStoragePercentage(c.heap, c.topo, self.percentage)
        d  == ReserveDenseStorage(h1, c.topo, module, w.shardable_modules)
        k  == ReserveKjtStorage(d.heap, c.topo, w.all_input_lengths, BIGINT_DTYPE)
        add(old, new) == IF old.none THEN new
                         ELSE Storage(old.val.hbm + new.hbm, old.val.ddr + new.ddr)
    IN  Outcome(k.heap, c.topo,
                [self EXCEPT !.dense_storage = Some(add(self.dense_storage, d.storage)),
                             !.kjt_storage   = Some(add(self.kjt_storage, k.storage))])

HeuristicalReserve(h, self, topology, module, sharders, constraints) ==
    LET c  == DeepCopy(h, topology)
        w  == Walk(module, sharders, constraints)
        h1 == ReserveStoragePercentage(c.heap, c.topo, self.percentage)
        d  == ReserveDenseStorage(h1, c.topo, module, w.shardable_modules)
        k  == ReserveKjtStorage(d.heap, c.topo, w.all_input_lengths, BIGINT_DTYPE)
    IN  Outcome(k.heap, c.topo,
                [self EXCEPT !.dense_storage = Some(d.storage),
                             !.kjt_storage   = Some(k.storage)])

----------------------------------------------------------------------------
(* Constructors: assert percentage >= 0 and percentage <= 1 *)

\* mutant of PercentageOk: only the lower end is asserted
PercentageOkLowerOnly(percentage) == percentage.num >= 0

PercentageOk(percentage) ==
    percentage.num >= 0 /\ percentage.num <= percentage.den

----------------------------------------------------------------------------
(* Inputs *)

Percentages ==
    {Rat(0 - 1, 4), Rat(0, 1), Rat(1, 4), Rat(1, 2), Rat(1, 1), Rat(5, 4)}

ComputeDevices == {"cuda", "cpu"}

BatchSizes == {3, 4}

DeviceLayouts ==
    { <<Storage(5001, 9003), Storage(5001, 9003)>>,
      <<Storage(4002, 77), Storage(101, 8001)>> }

TModel == ModuleType("app.model", "Model")

TLinear == ModuleType("torch.nn", "Linear")

TEBC == ModuleType("torchrec.modules", "EmbeddingBagCollection")

TEC == ModuleType("torchrec.modules", "EmbeddingCollection")

\* no node of a type a sharder knows
ModelPlain ==
    << Node(TModel, 0, <<Tensor(4, 10, TRUE)>>, <<>>),
       Node(TLinear, 1, <<Tensor(4, 6, TRUE), Tensor(8, 3, FALSE)>>, <<"w">>) >>

\* one shardable submodule claiming one parameter
ModelOneEBC ==
    << Node(TModel, 0, <<Tensor(4, 10, TRUE)>>, <<>>),
       Node(TEBC, 1, <<Tensor(4, 100, TRUE)>>, <<"t1">>) >>

\* a shardable node nested inside another shardable node
ModelNested ==
    << Node(TModel, 0, <<Tensor(4, 10, TRUE), Tensor(1, 7, FALSE)>>, <<>>),
       Node(TEBC, 1, <<Tensor(4, 50, TRUE)>>, <<"t1", "t2">>),
       Node(TEC, 2, <<Tensor(4, 20, TRUE)>>, <<"t3">>),
       Node(TLinear, 1, <<Tensor(2, 5, FALSE)>>, <<"w">>) >>

\* the root itself is shardable
ModelRootEBC ==
    << Node(TEBC, 0, <<Tensor(4, 30, TRUE)>>, <<"t1">>) >>

ModuleInputs == {ModelPlain, ModelOneEBC, ModelNested, ModelRootEBC}

SharderEBC == Sharder(TEBC)

SharderEC == Sharder(TEC)

SharderInputs ==
    { <<>>, <<SharderEBC>>, <<SharderEC>>, <<SharderEBC, SharderEC>> }

ConstraintInputs ==
    { NoneVal,
      Some(<<>>),
      Some([n \in {"t1"} |-> ParameterConstraints(<<Rat(2, 1), Rat(3, 1)>>)]),
      Some([n \in {"t1", "t3"} |->
              IF n = "t1" THEN ParameterConstraints(<<>>)
              ELSE ParameterConstraints(<<Rat(5, 16)>>)]) }

\* the budget values a caller writes into a topology it owns
PlacedValues == {0}

----------------------------------------------------------------------------
(* State machine *)

NoArgs == Args(<<>>, <<>>, NoneVal)

Init ==
    /\ \E layout \in DeviceLayouts, cd \in ComputeDevices, bs \in BatchSizes :
          /\ heap = layout
          /\ topos = << Topology([i \in 1..Len(layout) |-> i], cd, bs) >>
    /\ insts = <<>>
    /\ last = Event("init", "ok", Rat(0, 1), 0, 0, 0, NoArgs)

\* One planning pass: a strategy is constructed and reserve is called on it.
Construct(make, percentage) ==
    /\ insts = <<>>
    /\ IF PercentageOk(percentage)
       THEN /\ insts' = Append(insts, make)
            /\ last' = Event("construct", "ok", percentage, Len(insts) + 1, 0, 0, NoArgs)
       ELSE /\ insts' = insts
            /\ last' = Event("construct", "AssertionError", percentage, 0, 0, 0, NoArgs)
    /\ UNCHANGED <<heap, topos>>

ConstructFixed ==
    \E percentage \in Percentages : Construct(FixedInit(percentage), percentage)

ConstructHeuristical ==
    \E percentage \in Percentages : Construct(HeuristicalInit(percentage), percentage)

\* the caller passes the topology it built, topos[1]
Returned(r, s, module, sharders, constraints) ==
    /\ heap' = r.heap
    /\ topos' = Append(topos, r.reserved_topology)
    /\ insts' = [insts EXCEPT ![s] = r.self]
    /\ last' = Event("reserve", "ok", insts[s].percentage, s, 1, Len(topos) + 1,
                     Args(module, sharders, constraints))

ReserveFixedOn(calls, Ms, Ss, Cs) ==
    \E s \in DOMAIN insts, module \in Ms, sharders \in Ss, constraints \in Cs :
        /\ insts[s].kind = "Fixed"
        /\ Len(topos) - 1 < calls
        /\ Returned(FixedReserve(heap, insts[s], topos[1]),
                    s, module, sharders, constraints)

ReserveHeuristicalOn(calls, Ms, Ss, Cs) ==
    \E s \in DOMAIN insts, module \in Ms, sharders \in Ss, constraints \in Cs :
        /\ insts[s].kind = "Heuristical"
        /\ Len(topos) - 1 < calls
        /\ Returned(HeuristicalReserve(heap, insts[s], topos[1],
                                       module, sharders, constraints),
                    s, module, sharders, constraints)

ReserveFixed == ReserveFixedOn(1, ModuleInputs, SharderInputs, ConstraintInputs)

ReserveHeuristical ==
    ReserveHeuristicalOn(1, ModuleInputs, SharderInputs, ConstraintInputs)

\* the caller writes a device budget of a topology that reserve returned to it
PlaceOnReturned ==
    \E t \in DOMAIN topos, v \in PlacedValues :
        \E i \in DOMAIN topos[t].devices :
            /\ t > 1
            /\ heap[topos[t].devices[i]] # Storage(v, v)
            /\ heap' = [heap EXCEPT ![topos[t].devices[i]] = Storage(v, v)]
            /\ last' = Event("place", "ok", Rat(0, 1), 0, t, 0, NoArgs)
            /\ UNCHANGED <<topos, insts>>

Next ==
    \/ ConstructFixed
    \/ ConstructHeuristical
    \/ ReserveFixed
    \/ ReserveHeuristical
    \/ PlaceOnReturned

Spec == Init /\ [][Next]_vars

----------------------------------------------------------------------------
(* Repeated calls: both strategies constructed, reserve called up to       *)
(* MaxCalls times in any order on either, with inputs that vary per call.  *)

RepeatPercentages == {Rat(1, 4), Rat(1, 2)}

RepeatModules == {ModelOneEBC, ModelNested}

RepeatSharders == { <<SharderEBC>>, <<SharderEBC, SharderEC>> }

RepeatConstraints ==
    { NoneVal, Some([n \in {"t1"} |-> ParameterConstraints(<<Rat(2, 1), Rat(3, 1)>>)]) }

InitCalls ==
    /\ \E cd \in ComputeDevices :
          /\ heap = <<Storage(4002, 77), Storage(101, 8001)>>
          /\ topos = << Topology(<<1, 2>>, cd, 3) >>
    /\ \E pf \in RepeatPercentages, ph \in RepeatPercentages :
          insts = <<FixedInit(pf), HeuristicalInit(ph)>>
    /\ last = Event("init", "ok", Rat(0, 1), 0, 0, 0, NoArgs)

ReserveFixedAgain ==
    ReserveFixedOn(MaxCalls, RepeatModules, RepeatSharders, RepeatConstraints)

ReserveHeuristicalAgain ==
    ReserveHeuristicalOn(MaxCalls, RepeatModules, RepeatSharders, RepeatConstraints)

NextCalls ==
    \/ ReserveFixedAgain
    \/ ReserveHeuristicalAgain
    \/ PlaceOnReturned

SpecCalls == InitCalls /\ [][NextCalls]_vars

----------------------------------------------------------------------------
(* Vocabulary of the properties *)

ReservedBy(kind) == last.op = "reserve" /\ insts[last.inst].kind = kind

InTopo == topos[last.topology]

OutTopo == topos[last.reserved]

InDev(i) == heap[InTopo.devices[i]]

OutDev(i) == heap[OutTopo.devices[i]]

\* floor((1 - p) * x)
FloorCut(p, x) == ((p.den - p.num) * x) \div p.den

\* the field of a storage that matches the compute device
Matching(cd, st) == IF cd = "cuda" THEN st.hbm ELSE st.ddr

Other(cd, st) == IF cd = "cuda" THEN st.ddr ELSE st.hbm

LastWalk == Walk(last.args.module, last.args.sharders, last.args.constraints)

LastDense == UnshardableTensorsSize(last.args.module, LastWalk.shardable_modules)

LastKjt == KjtSize(InTopo.batch_size, LastWalk.all_input_lengths, BIGINT_DTYPE)

----------------------------------------------------------------------------
\* C1: after FixedPercentageReservation(p).reserve(T, module, sharders,
\* constraints), whatever the last three arguments, the returned topology has
\* as many devices as T and each device's hbm and ddr equal
\* floor((1 - p) * the same field of that device in T).
C1_FixedCut ==
    ReservedBy("Fixed") =>
        /\ Len(OutTopo.devices) = Len(InTopo.devices)
        /\ \A i \in DOMAIN OutTopo.devices :
              /\ OutDev(i).hbm = FloorCut(last.percentage, InDev(i).hbm)
              /\ OutDev(i).ddr = FloorCut(last.percentage, InDev(i).ddr)

C1_Witness ==
    /\ ReservedBy("Fixed")
    /\ last.percentage = Rat(1, 4)
    /\ last.args.sharders # <<>>
    /\ InDev(1).hbm = 5001
    /\ OutDev(1).hbm = 3750

\* C2: after HeuristicalStorageReservation(p).reserve, for every device and
\* the field matching compute_device, the budget is
\* floor((1 - p) * original) - dense - batch working set: the cut is taken of
\* the original budget, and every device pays both amounts in full.
C2_HeuristicBudget ==
    ReservedBy("Heuristical") =>
        \A i \in DOMAIN OutTopo.devices :
            Matching(OutTopo.compute_device, OutDev(i)) =
                FloorCut(last.percentage, Matching(InTopo.compute_device, InDev(i)))
                - LastDense - LastKjt

C2_Witness ==
    /\ ReservedBy("Heuristical")
    /\ last.percentage = Rat(1, 4)
    /\ LastDense > 0
    /\ LastKjt > 0
    /\ Len(OutTopo.devices) = 2
    /\ LET x == Matching(InTopo.compute_device, InDev(1))
       IN  FloorCut(last.percentage, x) - LastDense - LastKjt
             # FloorCut(last.percentage, x - LastDense - LastKjt)

\* C3: a reserve call of either strategy leaves every topology that existed
\* before the call as it was (each device's hbm and ddr, compute_device,
\* batch_size), the input included; and a write to a device budget of one
\* topology changes no other topology.
TopologyValue(t) ==
    << topos[t].compute_device, topos[t].batch_size,
       [i \in DOMAIN topos[t].devices |-> heap[topos[t].devices[i]]] >>

C3_Step ==
    \A t \in DOMAIN topos :
        /\ last'.op = "reserve" => TopologyValue(t)' = TopologyValue(t)
        /\ (last'.op = "place" /\ last'.topology # t) =>
              TopologyValue(t)' = TopologyValue(t)

C3_InputUntouched == [][C3_Step]_vars

C3_Witness ==
    /\ last.op = "place"
    /\ Len(topos) = 3
    /\ last.topology = 2
    /\ insts[1].kind # insts[2].kind
    /\ TopologyValue(2)[3] # TopologyValue(3)[3]
    /\ TopologyValue(1)[3] = <<Storage(4002, 77), Storage(101, 8001)>>

\* C4: the dense amount is the weighted size of exactly the tensors that
\* belong to no shardable node's subtree, also when a shardable node lies
\* inside another shardable node.
OutsideShardable(module, shardable_modules, n) ==
    \A k \in DOMAIN shardable_modules :
        ~IsAncestorOrSelf(module, shardable_modules[k], n)

RECURSIVE OwnTensorsFrom(_, _, _)
OwnTensorsFrom(module, keep, i) ==
    IF i > Len(module) THEN 0
    ELSE (IF i \in keep THEN TensorSizeLoop(module[i].tensors, 1) ELSE 0)
         + OwnTensorsFrom(module, keep, i + 1)

DenseOutsideShardable(module, shardable_modules) ==
    OwnTensorsFrom(module,
                   {n \in DOMAIN module :
                        OutsideShardable(module, shardable_modules, n)}, 1)

C4_DenseExcludesShardable ==
    ReservedBy("Heuristical") =>
        Matching(OutTopo.compute_device, insts[last.inst].dense_storage.val)
            = DenseOutsideShardable(last.args.module, LastWalk.shardable_modules)

\* C5: a strategy constructed with p < 0 or p > 1 fails at construction and
\* leaves no instance; every instance has 0 <= p <= 1; reserve raises nothing.
OutOfRange(p) == p.num < 0 \/ p.num > p.den

C5_PercentageChecked ==
    /\ \A s \in DOMAIN insts : ~OutOfRange(insts[s].percentage)
    /\ last.op = "construct" =>
          /\ last.result = "AssertionError" <=> OutOfRange(last.percentage)
          /\ last.result = "AssertionError" => insts = <<>>
          /\ last.result = "ok" => insts[last.inst].percentage = last.percentage
    /\ last.op = "reserve" => last.result = "ok"

C5_Witness ==
    /\ last.op = "construct"
    /\ last.result = "AssertionError"
    /\ last.percentage = Rat(5, 4)
    /\ insts = <<>>

\* C6: with an empty sharder list, or a model none of whose nodes matches a
\* sharder, the dense reservation is the whole model's weighted tensor size
\* and the batch working-set reservation is 0 in both fields.
NoNodeMatches(module, sharders) ==
    \A n \in DOMAIN module : \A k \in DOMAIN sharders :
        sharder_name(sharders[k].module_type) # sharder_name(module[n].type)

WholeModelSize(module) == OwnTensorsFrom(module, DOMAIN module, 1)

C6_NoSharderMatch ==
    (ReservedBy("Heuristical") /\ NoNodeMatches(last.args.module, last.args.sharders)) =>
        /\ Matching(OutTopo.compute_device, insts[last.inst].dense_storage.val)
              = WholeModelSize(last.args.module)
        /\ insts[last.inst].kjt_storage.val = Storage(0, 0)

C6_Witness ==
    /\ ReservedBy("Heuristical")
    /\ last.args.sharders = <<SharderEC>>
    /\ last.args.module = ModelOneEBC
    /\ ~last.args.constraints.none
    /\ insts[last.inst].kjt_storage.val = Storage(0, 0)
    /\ Matching(OutTopo.compute_device, insts[last.inst].dense_storage.val) = 2640

\* C7: the batch working-set amount is
\* ceil(batch_size * total_input_length * 8) * 20, the ceiling taken before
\* the multiplication by 20, where total_input_length sums the input length
\* recorded for every parameter claimed on every matched node; pooling
\* factors [2.0, 3.0] with batch_size 4 give 3200.
CeilingOf(n, d) == CHOOSE k \in 0..n : k * d >= n /\ (k - 1) * d < n

C7_KjtAmount ==
    ReservedBy("Heuristical") =>
        LET total == RatSum(LastWalk.all_input_lengths)
            kjt   == Matching(OutTopo.compute_device, insts[last.inst].kjt_storage.val)
        IN  /\ kjt = CeilingOf(InTopo.batch_size * total.num * 8, total.den) * 20
            /\ (InTopo.batch_size = 4
                  /\ LastWalk.all_input_lengths = <<Rat(5, 1)>>) => kjt = 3200

C7_Witness ==
    /\ ReservedBy("Heuristical")
    /\ InTopo.batch_size = 3
    /\ LastWalk.all_input_lengths = <<Rat(5, 16)>>
    /\ Matching(OutTopo.compute_device, insts[last.inst].kjt_storage.val) = 160

\* the worked example of C7 is a reachable call
C7_ExampleReached ==
    /\ ReservedBy("Heuristical")
    /\ InTopo.batch_size = 4
    /\ last.args.module = ModelOneEBC
    /\ LastWalk.all_input_lengths = <<Rat(5, 1)>>
    /\ Matching(OutTopo.compute_device, insts[last.inst].kjt_storage.val) = 3200

\* C8: after every reserve call on a HeuristicalStorageReservation instance,
\* whatever was called before, the instance's retained dense and batch
\* working-set storage are the two amounts of that call: each is the amount
\* computed from that call's arguments, and together they are what separates
\* every returned device from its percentage cut.
C8_RetainedIsLastCall ==
    ReservedBy("Heuristical") =>
        LET dense == insts[last.inst].dense_storage
            kjt   == insts[last.inst].kjt_storage
        IN  /\ ~dense.none /\ ~kjt.none
            /\ Matching(OutTopo.compute_device, dense.val) = LastDense
            /\ Matching(OutTopo.compute_device, kjt.val) = LastKjt
            /\ \A i \in DOMAIN OutTopo.devices :
                  /\ FloorCut(last.percentage, InDev(i).hbm) - OutDev(i).hbm
                        = dense.val.hbm + kjt.val.hbm
                  /\ FloorCut(last.percentage, InDev(i).ddr) - OutDev(i).ddr
                        = dense.val.ddr + kjt.val.ddr

\* a second call on the same instance whose amounts differ from the first's
C8_Witness ==
    /\ ReservedBy("Heuristical")
    /\ last.reserved = 3
    /\ \A i \in DOMAIN topos[2].devices :
          /\ heap[topos[2].devices[i]] # Storage(0, 0)
          /\ Matching(InTopo.compute_device, heap[topos[2].devices[i]])
                # FloorCut(insts[1].percentage, Matching(InTopo.compute_device, InDev(i)))
    /\ heap[topos[2].devices[1]] # OutDev(1)
    /\ LastDense < 0

\* C9: the input length recorded for a claimed parameter name is the sum of
\* its constraint's pooling factors when a constraint with pooling factors is
\* present for the name, and POOLING_FACTOR when the constraint is absent or
\* its pooling-factor sequence is empty.
RECURSIVE ClaimedNames(_, _, _)
ClaimedNames(module, sharders, i) ==
    IF i > Len(module) THEN <<>>
    ELSE (IF \E k \in DOMAIN sharders :
                sharder_name(sharders[k].module_type) = sharder_name(module[i].type)
          THEN module[i].params ELSE <<>>)
         \o ClaimedNames(module, sharders, i + 1)

RatEq(a, b) == a.num * b.den = b.num * a.den

HasPoolingFactors(constraints, name) ==
    /\ ~constraints.none
    /\ name \in DOMAIN constraints.val
    /\ constraints.val[name].pooling_factors # <<>>

C9_InputLength ==
    ReservedBy("Heuristical") =>
        LET names == ClaimedNames(last.args.module, last.args.sharders, 1)
        IN  /\ Len(LastWalk.all_input_lengths) = Len(names)
            /\ \A k \in DOMAIN names :
                  RatEq(LastWalk.all_input_lengths[k],
                        IF HasPoolingFactors(last.args.constraints, names[k])
                        THEN RatSum(last.args.constraints.val[names[k]].pooling_factors)
                        ELSE POOLING_FACTOR)

\* C10: the dense and the batch working-set reservation each lie wholly in
\* one field, hbm when compute_device is "cuda" and ddr otherwise, with 0
\* in the other field; the field that does not match compute_device is left
\* at its percentage-cut value on every device.
C10_OneField ==
    ReservedBy("Heuristical") =>
        LET cd    == OutTopo.compute_device
            dense == insts[last.inst].dense_storage.val
            kjt   == insts[last.inst].kjt_storage.val
        IN  /\ cd = InTopo.compute_device
            /\ dense = (IF cd = "cuda" THEN Storage(LastDense, 0)
                        ELSE Storage(0, LastDense))
            /\ kjt = (IF cd = "cuda" THEN Storage(LastKjt, 0)
                      ELSE Storage(0, LastKjt))
            /\ \A i \in DOMAIN OutTopo.devices :
                  Other(cd, OutDev(i)) = FloorCut(last.percentage, Other(cd, InDev(i)))

C10_Witness ==
    /\ ReservedBy("Heuristical")
    /\ OutTopo.compute_device = "cpu"
    /\ LastDense > 0
    /\ LastKjt > 0
    /\ insts[last.inst].dense_storage.val.hbm = 0
    /\ insts[last.inst].kjt_storage.val.hbm = 0
    /\ OutDev(1).hbm = 3750
    /\ OutDev(1).ddr < 6752

====
